---- MODULE Spec2Model ----
(***************************************************************************)
(* Outline inference pipeline of outline_extractor.py: the TOC parser, the *)
(* classifier fallback (feature engineer, classifier, stitcher, level      *)
(* assigner, sanity filter) and the orchestrator that chooses between      *)
(* them.  A text is a sequence of one-character strings; a page is the     *)
(* sequence of its lines, top to bottom; pages_content is the sequence of  *)
(* pages, page_num p being element p + 1.                                  *)
(***************************************************************************)
EXTENDS Integers, Sequences, FiniteSets, TLC

VARIABLES
    pc,                         \* position in the function under execution
    pages_content,              \* result of parse_pdf_enhanced
    model,                      \* TRUE iff a classifier was supplied
    parsed_toc,                 \* result of find_and_parse_toc
    lines_with_features,        \* result of engineer_features_layout
    predictions,                \* classifier output, one per line (percent)
    all_lines_map,              \* per-page lookup from bbox to line
    heading_candidates,         \* the heading list given to the stitcher
    stitched_headings,          \* result of stitch_multiline_headings
    processed_bboxes,           \* the stitcher's set of consumed lines
    absorbed,                   \* history: per stitched entry, the lines merged into it
    restitched,                 \* result of stitching stitched_headings again
    final_outline_with_levels,  \* result of assign_levels_by_font_size
    final_clean_outline,        \* result of nlp_sanity_check
    final_output,               \* the {level, text, page} list before sorting
    result,                     \* the payload handed to json.dumps
    exit,                       \* which return statement produced result
    calls                       \* history: the components invoked so far

vars == <<pc, pages_content, model, parsed_toc, lines_with_features,
          predictions, all_lines_map, heading_candidates, stitched_headings,
          processed_bboxes, absorbed, restitched, final_outline_with_levels,
          final_clean_outline, final_output, result, exit, calls>>

(***************************************************************************)
(* Program constants.                                                      *)
(***************************************************************************)
TOC_MIN_ENTRIES == 4
TOC_HEADER_LINES == 3
TOC_WINDOW_PAGES == 5
TOC_SCAN_EXTRA == 3
STITCH_MAX_WORDS == 7
STITCH_SIZE_TOL == 1
SANITY_MAX_WORDS == 25
MAX_LEVELS == 3
THRESHOLD == 50

(***************************************************************************)
(* Bounds of the model.                                                    *)
(***************************************************************************)
MaxPages == 2
MaxTocLines == 7
MaxBodyLines == 3
MaxIndentLines == 5
MaxStitchLines == 3
MaxStitchHeadings == 2
MaxSanityHeadings == 2
MaxLevelHeadings == 5

(***************************************************************************)
(* Characters and the string operations the code uses.                     *)
(***************************************************************************)
UPPER ==
    <<"A", "B", "C", "D", "E", "F", "G", "H", "I", "J", "K", "L", "M",
      "N", "O", "P", "Q", "R", "S", "T", "U", "V", "W", "X", "Y", "Z">>
LOWER ==
    <<"a", "b", "c", "d", "e", "f", "g", "h", "i", "j", "k", "l", "m",
      "n", "o", "p", "q", "r", "s", "t", "u", "v", "w", "x", "y", "z">>
DIGITS == <<"0", "1", "2", "3", "4", "5", "6", "7", "8", "9">>

Range(s) == {s[i] : i \in 1..Len(s)}
Min(a, b) == IF a <= b THEN a ELSE b
Abs(a) == IF a < 0 THEN -a ELSE a

\* the backtick character, which a TLA+ string cannot hold
BACKTICK == "bq"

Whitespace == {" ", "\t"}
Digits == Range(DIGITS)
AsciiLetters == Range(UPPER) \cup Range(LOWER)

\* str.lower() on one character
LowerChar(c) ==
    IF c \in Range(UPPER)
    THEN LOWER[CHOOSE k \in 1..Len(UPPER) : UPPER[k] = c]
    ELSE c

Lower(t) == [i \in 1..Len(t) |-> LowerChar(t[i])]

\* number of leading characters of t that are in S
RECURSIVE LeadingRun(_, _)
LeadingRun(t, S) ==
    IF t # <<>> /\ Head(t) \in S THEN 1 + LeadingRun(Tail(t), S) ELSE 0

\* number of trailing characters of t that are in S
RECURSIVE TrailingRun(_, _)
TrailingRun(t, S) ==
    IF t # <<>> /\ t[Len(t)] \in S
    THEN 1 + TrailingRun(SubSeq(t, 1, Len(t) - 1), S)
    ELSE 0

\* str.strip()
Strip(t) ==
    LET a == LeadingRun(t, Whitespace)
        rest == SubSeq(t, a + 1, Len(t))
    IN  SubSeq(rest, 1, Len(rest) - TrailingRun(rest, Whitespace))

\* len(text.split()): the number of maximal runs of non-whitespace
WordCount(t) ==
    Cardinality({i \in 1..Len(t) :
        t[i] \notin Whitespace /\ (i = 1 \/ t[i - 1] \in Whitespace)})

\* " ".join(texts)
RECURSIVE JoinSpace(_)
JoinSpace(ts) ==
    IF ts = <<>> THEN <<>>
    ELSE IF Len(ts) = 1 THEN ts[1]
    ELSE ts[1] \o <<" ">> \o JoinSpace(Tail(ts))

\* int(digits)
RECURSIVE ParseInt(_)
ParseInt(ds) ==
    IF ds = <<>> THEN 0
    ELSE 10 * ParseInt(SubSeq(ds, 1, Len(ds) - 1))
         + (CHOOSE n \in 0..9 : DIGITS[n + 1] = ds[Len(ds)])

\* f"H{k}"
LevelTag(k) == "H" \o ToString(k)

\* sorted(list(set(...))) of integers, ascending
RECURSIVE SortedAsc(_)
SortedAsc(S) ==
    IF S = {} THEN <<>>
    ELSE LET m == CHOOSE x \in S : \A y \in S : x <= y
         IN  <<m>> \o SortedAsc(S \ {m})

\* sorted(list(set(...)), reverse=True) of integers
RECURSIVE SortedDesc(_)
SortedDesc(S) ==
    IF S = {} THEN <<>>
    ELSE LET m == CHOOSE x \in S : \A y \in S : x >= y
         IN  <<m>> \o SortedDesc(S \ {m})

IndexOf(s, x) == CHOOSE i \in 1..Len(s) : s[i] = x

RECURSIVE Flatten(_)
Flatten(ss) == IF ss = <<>> THEN <<>> ELSE Head(ss) \o Flatten(Tail(ss))

(***************************************************************************)
(* find_and_parse_toc                                                      *)
(***************************************************************************)
TOC_SYNONYMS ==
    { <<"t", "a", "b", "l", "e", " ", "o", "f", " ",
        "c", "o", "n", "t", "e", "n", "t", "s">>,
      <<"c", "o", "n", "t", "e", "n", "t", "s">>,
      <<"t", "o", "c">>,
      <<"o", "u", "t", "l", "i", "n", "e">>,
      <<"i", "n", "d", "e", "x">>,
      <<"s", "u", "m", "m", "a", "r", "y">>,
      <<"d", "o", "c", "u", "m", "e", "n", "t", " ", "m", "a", "p">> }

\* int(len(pages_content) * 0.2) + 3
MaxPageToScan(n) == (n * 2) \div 10 + TOC_SCAN_EXTRA

\* any(line['text'].lower().strip() in TOC_SYNONYMS for line in lines[:3])
HasTocHeader(lines) ==
    \E i \in 1..Min(TOC_HEADER_LINES, Len(lines)) :
        Strip(Lower(lines[i].text)) \in TOC_SYNONYMS

\* re.match(r'^(.*?)(?:\s*\.|\s){2,}(\d+)$', text): the text must end in a
\* run of digits preceded by at least two leader characters (whitespace or
\* '.'); the lazy first group stops where the leader run begins.
TocMatch(t) ==
    LET d == TrailingRun(t, Digits)
        l == TrailingRun(SubSeq(t, 1, Len(t) - d), Whitespace \cup {"."})
    IN  [matched |-> d >= 1 /\ l >= 2,
         group1 |-> SubSeq(t, 1, Len(t) - d - l),
         group2 |-> SubSeq(t, Len(t) - d + 1, Len(t))]

\* re.sub(r'^\d+[\.\s]*', '', text)
StripNumPrefix(t) ==
    LET d == LeadingRun(t, Digits)
        rest == SubSeq(t, d + 1, Len(t))
    IN  IF d = 0 THEN t
        ELSE SubSeq(rest, LeadingRun(rest, Whitespace \cup {"."}) + 1, Len(rest))

\* the entries of one page, line by line
RECURSIVE LineEntries(_)
LineEntries(lines) ==
    IF lines = <<>> THEN <<>>
    ELSE LET toc_line == Head(lines)
             match == TocMatch(toc_line.text)
         IN  (IF match.matched
              THEN << [text |-> StripNumPrefix(Strip(match.group1)),
                       page |-> ParseInt(match.group2) - 1,
                       indent |-> toc_line.bbox[1]] >>
              ELSE <<>>)
             \o LineEntries(Tail(lines))

\* for p_num in range(page_num, last): the entries of the pages of the window
RECURSIVE WindowEntries(_, _, _)
WindowEntries(pages, p_num, last) ==
    IF p_num >= last THEN <<>>
    ELSE LineEntries(pages[p_num + 1]) \o WindowEntries(pages, p_num + 1, last)

\* the tags counted from 0
IndentMap_ZeroBased(indents) ==
    [d \in Range(indents) |-> LevelTag(IndexOf(indents, d) - 1)]

\* indent_map = {indent: f"H{i+1}" for i, indent in enumerate(indents)}
IndentMap(indents) ==
    [d \in Range(indents) |-> LevelTag((IndexOf(indents, d) - 1) + 1)]

AssignTocLevels(toc_entries) ==
    LET indents == SortedAsc({toc_entries[i].indent : i \in 1..Len(toc_entries)})
        indent_map == IndentMap(indents)
    IN  [i \in 1..Len(toc_entries) |->
            [text |-> toc_entries[i].text,
             page |-> toc_entries[i].page,
             indent |-> toc_entries[i].indent,
             level |-> indent_map[toc_entries[i].indent]]]

NoToc == [found |-> FALSE, entries |-> <<>>]

\* for page_num in range(min(max_page_to_scan, len(pages_content)))
RECURSIVE ScanPages(_, _, _)
ScanPages(pages, page_num, limit) ==
    IF page_num >= limit THEN NoToc
    ELSE LET lines == pages[page_num + 1]
             toc_entries ==
                 WindowEntries(pages, page_num,
                               Min(page_num + TOC_WINDOW_PAGES, Len(pages)))
         IN  IF lines # <<>> /\ HasTocHeader(lines) /\ toc_entries # <<>>
             THEN [found |-> TRUE, entries |-> AssignTocLevels(toc_entries)]
             ELSE ScanPages(pages, page_num + 1, limit)

FindAndParseToc(pages) ==
    ScanPages(pages, 0, Min(MaxPageToScan(Len(pages)), Len(pages)))

(***************************************************************************)
(* engineer_features_layout and the classifier                             *)
(***************************************************************************)
\* the font family names the model uses, in sorted() order
FontFamilies == <<"Arial", "Times">>

\* re.match(r"^(?:(\d{1,2}(?:\.\d{1,2})*))", text): the text starts with a digit
PatternMatch(t) == IF t # <<>> /\ t[1] \in Digits THEN 1 ELSE 0

\* 0.4 < ((bbox[0] + bbox[2]) / 2 / page_width) < 0.6, for page_width > 0
IsCentered(bbox, page_width) ==
    IF 4 * page_width < 5 * (bbox[1] + bbox[3])
       /\ 5 * (bbox[1] + bbox[3]) < 6 * page_width
    THEN 1 ELSE 0

\* font_map = {font: i for i, font in enumerate(font_families)}
FontMap(all_lines) ==
    LET font_families ==
            SelectSeq(FontFamilies,
                      LAMBDA f : \E i \in 1..Len(all_lines) : all_lines[i].font_family = f)
    IN  [f \in Range(font_families) |-> IndexOf(font_families, f) - 1]

\* the body of the loop over all_lines: the line with its four features
WithFeatures(line, pages, font_map) ==
    LET page == pages[line.page_num + 1]
        page_width == IF page # <<>> THEN page[1].bbox[3] ELSE 1
    IN  [text |-> line.text, size |-> line.size,
         font_family |-> line.font_family, bold |-> line.bold,
         page_num |-> line.page_num, bbox |-> line.bbox,
         pattern_match |-> PatternMatch(line.text),
         is_centered |-> IsCentered(line.bbox, page_width),
         indentation |-> line.bbox[1],
         font_family_encoded |-> font_map[line.font_family]]

\* the lines are updated in place: pages_content holds the same objects
EngineerPages(pages) ==
    LET font_map == FontMap(Flatten(pages))
    IN  [p \in 1..Len(pages) |->
            [i \in 1..Len(pages[p]) |-> WithFeatures(pages[p][i], pages, font_map)]]

EngineerFeaturesLayout(pages) == Flatten(EngineerPages(pages))

\* df[features_for_model]: the row the classifier sees
FeatureRow(line) ==
    <<line.size, line.pattern_match, line.bold, line.is_centered,
      line.indentation, line.font_family_encoded>>

\* probabilities (percent) the classifier may return for a row
Probabilities == {50, 90}

\* (predictions > 0.5).astype(int)
IsHeadingPrediction(p) == IF p > THRESHOLD THEN 1 ELSE 0

\* df[df['is_heading_prediction'] == 1].to_dict('records')
HeadingCandidates(lines, preds) ==
    LET Row(i) ==
            [text |-> lines[i].text, size |-> lines[i].size,
             font_family |-> lines[i].font_family, bold |-> lines[i].bold,
             page_num |-> lines[i].page_num, bbox |-> lines[i].bbox,
             pattern_match |-> lines[i].pattern_match,
             is_centered |-> lines[i].is_centered,
             indentation |-> lines[i].indentation,
             font_family_encoded |-> lines[i].font_family_encoded,
             is_heading_prediction |-> IsHeadingPrediction(preds[i])]
        rows == [i \in 1..Len(lines) |-> Row(i)]
    IN  SelectSeq(rows, LAMBDA r : r.is_heading_prediction = 1)

(***************************************************************************)
(* stitch_multiline_headings                                               *)
(***************************************************************************)
\* a dict is the sequence of its <<key, value>> pairs in insertion order
DictPut(d, k, v) ==
    IF \E i \in 1..Len(d) : d[i][1] = k
    THEN [d EXCEPT ![CHOOSE i \in 1..Len(d) : d[i][1] = k] = <<k, v>>]
    ELSE Append(d, <<k, v>>)

\* {tuple(line['bbox']): line for line in lines}
RECURSIVE LinesDict(_, _)
LinesDict(lines, d) ==
    IF lines = <<>> THEN d
    ELSE LinesDict(Tail(lines), DictPut(d, Head(lines).bbox, Head(lines)))

DictValues(d) == [i \in 1..Len(d) |-> d[i][2]]

\* {pageNum: {...} for pageNum, lines in pages_content.items()}
AllLinesMap(pages) == [p \in 1..Len(pages) |-> LinesDict(pages[p], <<>>)]

\* all_lines_map.get(h['page_num'], {})
PageLines(lookup, page_num) ==
    IF page_num + 1 \in DOMAIN lookup THEN lookup[page_num + 1] ELSE <<>>

\* sorted(..., key=lambda x: x['bbox'][1]): stable
RECURSIVE SortByY0(_)
SortByY0(s) ==
    IF s = <<>> THEN <<>>
    ELSE LET x == s[Len(s)]
             r == SortByY0(SubSeq(s, 1, Len(s) - 1))
             k == Cardinality({i \in 1..Len(r) : r[i].bbox[2] <= x.bbox[2]})
         IN  SubSeq(r, 1, k) \o <<x>> \o SubSeq(r, k + 1, Len(r))

\* next_line.get('is_heading_prediction', 0) == 1
IsPotentialHeading(next_line) ==
    (IF "is_heading_prediction" \in DOMAIN next_line
     THEN next_line.is_heading_prediction ELSE 0) = 1

\* the condition of the while loop's if
CanAbsorb(h, next_line) ==
    /\ WordCount(next_line.text) < STITCH_MAX_WORDS
    /\ ~next_line.bold
    /\ Abs(next_line.size - h.size) <= STITCH_SIZE_TOL
    /\ ~IsPotentialHeading(next_line)

\* the while loop: the lines absorbed from index j on
RECURSIVE AbsorbRun(_, _, _)
AbsorbRun(h, sorted_page_lines, j) ==
    IF j > Len(sorted_page_lines) THEN <<>>
    ELSE IF CanAbsorb(h, sorted_page_lines[j])
         THEN <<sorted_page_lines[j]>> \o AbsorbRun(h, sorted_page_lines, j + 1)
         ELSE <<>>

LineKey(line) == <<line.page_num, line.bbox>>

\* the iteration with the merged text thrown away
StitchOne_KeepsText(acc, h, lookup) ==
    LET sorted_page_lines == SortByY0(DictValues(PageLines(lookup, h.page_num)))
        found == {i \in 1..Len(sorted_page_lines) : sorted_page_lines[i].bbox = h.bbox}
        current_line_index == CHOOSE i \in found : \A k \in found : i <= k
        run == AbsorbRun(h, sorted_page_lines, current_line_index + 1)
    IN  IF LineKey(h) \in acc.processed_bboxes THEN acc
        ELSE IF found = {}
        THEN [acc EXCEPT !.stitched = Append(@, h),
                         !.absorbed = Append(@, <<>>)]
        ELSE [stitched |-> Append(acc.stitched, h),
              processed_bboxes |->
                  acc.processed_bboxes \cup {LineKey(run[i]) : i \in 1..Len(run)},
              absorbed |-> Append(acc.absorbed, run)]

\* the iteration without the test of processed_bboxes
StitchOne_NoSkip(acc, h, lookup) ==
    LET sorted_page_lines == SortByY0(DictValues(PageLines(lookup, h.page_num)))
        found == {i \in 1..Len(sorted_page_lines) : sorted_page_lines[i].bbox = h.bbox}
        current_line_index == CHOOSE i \in found : \A k \in found : i <= k
        run == AbsorbRun(h, sorted_page_lines, current_line_index + 1)
        merged_text ==
            JoinSpace(<<h.text>> \o [i \in 1..Len(run) |-> run[i].text])
    IN  IF found = {}
        THEN [acc EXCEPT !.stitched = Append(@, h),
                         !.absorbed = Append(@, <<>>)]
        ELSE [stitched |-> Append(acc.stitched, [h EXCEPT !.text = merged_text]),
              processed_bboxes |->
                  acc.processed_bboxes \cup {LineKey(run[i]) : i \in 1..Len(run)},
              absorbed |-> Append(acc.absorbed, run)]

\* one iteration of the for loop over headings
StitchOne(acc, h, lookup) ==
    LET sorted_page_lines == SortByY0(DictValues(PageLines(lookup, h.page_num)))
        found == {i \in 1..Len(sorted_page_lines) : sorted_page_lines[i].bbox = h.bbox}
        current_line_index == CHOOSE i \in found : \A k \in found : i <= k
        run == AbsorbRun(h, sorted_page_lines, current_line_index + 1)
        merged_text ==
            JoinSpace(<<h.text>> \o [i \in 1..Len(run) |-> run[i].text])
    IN  IF LineKey(h) \in acc.processed_bboxes THEN acc
        ELSE IF found = {}
        THEN [acc EXCEPT !.stitched = Append(@, h),
                         !.absorbed = Append(@, <<>>)]
        ELSE [stitched |-> Append(acc.stitched, [h EXCEPT !.text = merged_text]),
              processed_bboxes |->
                  acc.processed_bboxes \cup {LineKey(run[i]) : i \in 1..Len(run)},
              absorbed |-> Append(acc.absorbed, run)]

RECURSIVE StitchLoop(_, _, _)
StitchLoop(hs, lookup, acc) ==
    IF hs = <<>> THEN acc
    ELSE StitchLoop(Tail(hs), lookup, StitchOne(acc, Head(hs), lookup))

\* .stitched is the returned list; .processed_bboxes the local set at return;
\* .absorbed records, for each returned entry, the lines merged into it
StitchMultilineHeadings(hs, lookup) ==
    StitchLoop(hs, lookup,
               [stitched |-> <<>>, processed_bboxes |-> {}, absorbed |-> <<>>])

(***************************************************************************)
(* assign_levels_by_font_size, nlp_sanity_check, output assembly           *)
(***************************************************************************)
\* the map over every size, not the first three
SizeMap_Overflowing(sizes) ==
    [s \in Range(sizes) |-> LevelTag((IndexOf(sizes, s) - 1) + 1)]

\* size_map = {size: f"H{i+1}" for i, size in enumerate(sizes[:3])}
SizeMap(sizes) ==
    [s \in Range(SubSeq(sizes, 1, Min(MAX_LEVELS, Len(sizes)))) |->
        LevelTag((IndexOf(sizes, s) - 1) + 1)]

AssignLevelsByFontSize(hs) ==
    LET sizes == SortedDesc({hs[i].size : i \in 1..Len(hs)})
        size_map == SizeMap(sizes)
    IN  [i \in 1..Len(hs) |->
            ("level" :> (IF hs[i].size \in DOMAIN size_map
                         THEN size_map[hs[i].size] ELSE LevelTag(MAX_LEVELS)))
            @@ hs[i]]

\* re.search(r'[a-zA-Z]', text)
HasLetter(text) == \E i \in 1..Len(text) : text[i] \in AsciiLetters

\* the triple-backtick test of the filter
HasFence(text) ==
    \E i \in 1..(Len(text) - 2) :
        text[i] = BACKTICK /\ text[i + 1] = BACKTICK /\ text[i + 2] = BACKTICK

\* the word limit taken inclusively
SanityKeep_Inclusive(text) ==
    HasLetter(text) /\ ~HasFence(text) /\ WordCount(text) <= SANITY_MAX_WORDS

SanityKeep(text) ==
    HasLetter(text) /\ ~HasFence(text) /\ WordCount(text) < SANITY_MAX_WORDS

NlpSanityCheck(hs) == SelectSeq(hs, LAMBDA h : SanityKeep(h.text))

\* the loop building final_output
FinalOutput(hs) ==
    [i \in 1..Len(hs) |->
        [level |-> hs[i].level, text |-> hs[i].text, page |-> hs[i].page_num]]

\* the stable sort by descending page
RECURSIVE SortByPage_Descending(_)
SortByPage_Descending(s) ==
    IF s = <<>> THEN <<>>
    ELSE LET x == s[Len(s)]
             r == SortByPage_Descending(SubSeq(s, 1, Len(s) - 1))
             k == Cardinality({i \in 1..Len(r) : r[i].page >= x.page})
         IN  SubSeq(r, 1, k) \o <<x>> \o SubSeq(r, k + 1, Len(r))

\* sorted(final_output, key=lambda x: x['page']): stable
RECURSIVE SortByPage(_)
SortByPage(s) ==
    IF s = <<>> THEN <<>>
    ELSE LET x == s[Len(s)]
             r == SortByPage(SubSeq(s, 1, Len(s) - 1))
             k == Cardinality({i \in 1..Len(r) : r[i].page <= x.page})
         IN  SubSeq(r, 1, k) \o <<x>> \o SubSeq(r, k + 1, Len(r))

UNTITLED == <<"U", "n", "t", "i", "t", "l", "e", "d">>
MSG_NO_LINES ==
    <<"C", "o", "u", "l", "d", " ", "n", "o", "t", " ", "p", "a", "r", "s",
      "e", " ", "d", "o", "c", "u", "m", "e", "n", "t">>
MSG_NO_MODEL ==
    <<"E", "r", "r", "o", "r", ":", " ", "M", "L", " ", "M", "o", "d", "e",
      "l", " ", "n", "o", "t", " ", "p", "r", "o", "v", "i", "d", "e", "d",
      " ", "f", "o", "r", " ", "i", "n", "f", "e", "r", "e", "n", "c", "e",
      ".">>

\* " ".join(texts of the page-0 lines at page 0's maximum size), or "Untitled"
TitleText(pages) ==
    LET page_0_lines == IF 1 \in DOMAIN pages THEN pages[1] ELSE <<>>
        largest == CHOOSE m \in {page_0_lines[i].size : i \in 1..Len(page_0_lines)} :
                       \A i \in 1..Len(page_0_lines) : page_0_lines[i].size <= m
        at_max == SelectSeq(page_0_lines, LAMBDA l : l.size = largest)
    IN  IF page_0_lines = <<>> THEN UNTITLED
        ELSE JoinSpace([i \in 1..Len(at_max) |-> at_max[i].text])

\* the outline of the entries, sorted by page
TocOutline_SortedByPage(entries) ==
    SortByPage([i \in 1..Len(entries) |->
                   [level |-> entries[i].level, text |-> entries[i].text,
                    page |-> entries[i].page]])

\* outline = [{'level': ..., 'text': ..., 'page': ...} for e in parsed_toc]
TocOutline(entries) ==
    [i \in 1..Len(entries) |->
        [level |-> entries[i].level, text |-> entries[i].text,
         page |-> entries[i].page]]

(***************************************************************************)
(* Documents.  A line kind fixes a line's text, style and horizontal       *)
(* extent; its vertical position is its rank on the page, so a page is     *)
(* sorted by bbox[1] as parse_pdf_enhanced leaves it.                      *)
(***************************************************************************)
\* the ways to cut s into P consecutive pieces
RECURSIVE Splits(_, _)
Splits(s, P) ==
    IF P = 0 THEN (IF s = <<>> THEN {<<>>} ELSE {})
    ELSE UNION { { <<SubSeq(s, 1, k)>> \o rest :
                     rest \in Splits(SubSeq(s, k + 1, Len(s)), P - 1) } :
                 k \in 0..Len(s) }

\* the text of a table-of-contents entry printed as line i of a page: a
\* label naming the line, a dotted leader and a page number that
\* decreases down the page
EntryText(page_num, i) ==
    <<LOWER[i], LOWER[page_num + 1], ".", ".", DIGITS[11 - i]>>

\* its left edge: every second entry of a page is indented
EntryIndent(i) == 2 * (i % 2)

MkLine(kind, page_num, i) ==
    LET line == [text |-> IF "entry" \in DOMAIN kind
                          THEN EntryText(page_num, i) ELSE kind.text,
                 size |-> kind.size,
                 font_family |-> kind.font_family, bold |-> kind.bold,
                 page_num |-> page_num,
                 bbox |-> <<IF "entry" \in DOMAIN kind
                            THEN EntryIndent(i) ELSE kind.x0,
                            i, kind.x1, i + 1>>]
    IN  IF "flag" \in DOMAIN kind
        THEN ("is_heading_prediction" :> kind.flag) @@ line
        ELSE line

MkDoc(kinds_by_page) ==
    [p \in 1..Len(kinds_by_page) |->
        [i \in 1..Len(kinds_by_page[p]) |-> MkLine(kinds_by_page[p][i], p - 1, i)]]

\* pages_content is a document of at most MaxPages pages and max_lines
\* lines, each of one of the kinds
DrawDocument(kinds, max_lines) ==
    \E n \in 0..max_lines : \E s \in [1..n -> kinds] :
        \E P \in 0..MaxPages : \E kinds_by_page \in Splits(s, P) :
            pages_content = MkDoc(kinds_by_page)

RECURSIVE Repeat(_, _)
Repeat(t, n) == IF n = 0 THEN <<>> ELSE t \o Repeat(t, n - 1)

\* a text of n words: first, then n - 1 times filler, single spaces between
WordsText(first, filler, n) ==
    IF n = 0 THEN <<>> ELSE first \o Repeat(<<" ">> \o filler, n - 1)

TocKinds ==
    { [text |-> <<"T", "O", "C">>, size |-> 14, font_family |-> "Arial",
       bold |-> TRUE, x0 |-> 0, x1 |-> 10],
      [entry |-> TRUE, size |-> 12, font_family |-> "Arial",
       bold |-> FALSE, x1 |-> 10] }

BodyKinds ==
    { [text |-> <<"a">>, size |-> 12, font_family |-> "Arial",
       bold |-> FALSE, x0 |-> 0, x1 |-> 10],
      [text |-> <<"B">>, size |-> 13, font_family |-> "Arial",
       bold |-> TRUE, x0 |-> 0, x1 |-> 10],
      [text |-> WordsText(<<"c">>, <<"c">>, STITCH_MAX_WORDS), size |-> 12,
       font_family |-> "Times", bold |-> FALSE, x0 |-> 0, x1 |-> 10],
      [text |-> <<"1">>, size |-> 15, font_family |-> "Arial",
       bold |-> FALSE, x0 |-> 4, x1 |-> 6] }

IndentKinds ==
    { [text |-> <<"C", "o", "n", "t", "e", "n", "t", "s">>, size |-> 14,
       font_family |-> "Arial", bold |-> TRUE, x0 |-> 0, x1 |-> 10],
      [text |-> <<"a", " ", "1">>, size |-> 12, font_family |-> "Arial",
       bold |-> FALSE, x0 |-> 0, x1 |-> 10] }
    \cup { [text |-> <<"a", ".", ".", "1">>, size |-> 12,
            font_family |-> "Arial", bold |-> FALSE, x0 |-> x, x1 |-> 10] :
           x \in {1, 2, 5} }

(***************************************************************************)
(* process_document_definitive                                             *)
(***************************************************************************)
NoResult == [title |-> <<>>, outline |-> <<>>]

Blank ==
    /\ parsed_toc = NoToc
    /\ lines_with_features = <<>>
    /\ predictions = <<>>
    /\ all_lines_map = <<>>
    /\ heading_candidates = <<>>
    /\ stitched_headings = <<>>
    /\ processed_bboxes = {}
    /\ absorbed = <<>>
    /\ restitched = <<>>
    /\ final_outline_with_levels = <<>>
    /\ final_clean_outline = <<>>
    /\ final_output = <<>>
    /\ result = NoResult
    /\ exit = "none"
    /\ calls = <<>>

\* the state after pages_content = parse_pdf_enhanced(file_bytes)
Init ==
    /\ pc = "toc_attempt"
    /\ \/ DrawDocument(TocKinds, MaxTocLines)
       \/ DrawDocument(BodyKinds, MaxBodyLines)
    /\ model \in BOOLEAN
    /\ Blank

\* parsed_toc = find_and_parse_toc(pages_content)
FindToc ==
    /\ pc = "toc_attempt"
    /\ parsed_toc' = FindAndParseToc(pages_content)
    /\ calls' = Append(calls, "find_and_parse_toc")
    /\ pc' = "decide"
    /\ UNCHANGED <<pages_content, model, lines_with_features, predictions,
                   all_lines_map, heading_candidates, stitched_headings,
                   processed_bboxes, absorbed, restitched,
                   final_outline_with_levels, final_clean_outline,
                   final_output, result, exit>>

\* the test with the limit taken inclusively
TocSubstantial_AtLeast(toc) ==
    toc.found /\ toc.entries # <<>> /\ Len(toc.entries) >= TOC_MIN_ENTRIES

\* if parsed_toc and len(parsed_toc) > 4
TocSubstantial(toc) ==
    toc.found /\ toc.entries # <<>> /\ Len(toc.entries) > TOC_MIN_ENTRIES

AcceptToc ==
    /\ pc = "decide"
    /\ TocSubstantial(parsed_toc)
    /\ result' = [title |-> TitleText(pages_content),
                  outline |-> TocOutline(parsed_toc.entries)]
    /\ exit' = "toc"
    /\ pc' = "done"
    /\ UNCHANGED <<pages_content, model, parsed_toc, lines_with_features,
                   predictions, all_lines_map, heading_candidates,
                   stitched_headings, processed_bboxes, absorbed, restitched,
                   final_outline_with_levels, final_clean_outline,
                   final_output, calls>>

RejectToc ==
    /\ pc = "decide"
    /\ ~TocSubstantial(parsed_toc)
    /\ pc' = "ml_fallback"
    /\ UNCHANGED <<pages_content, model, parsed_toc, lines_with_features,
                   predictions, all_lines_map, heading_candidates,
                   stitched_headings, processed_bboxes, absorbed, restitched,
                   final_outline_with_levels, final_clean_outline,
                   final_output, result, exit, calls>>

\* if not model: return the error payload
NoModel ==
    /\ pc = "ml_fallback"
    /\ ~model
    /\ result' = [title |-> MSG_NO_MODEL, outline |-> <<>>]
    /\ exit' = "no_model"
    /\ pc' = "done"
    /\ UNCHANGED <<pages_content, model, parsed_toc, lines_with_features,
                   predictions, all_lines_map, heading_candidates,
                   stitched_headings, processed_bboxes, absorbed, restitched,
                   final_outline_with_levels, final_clean_outline,
                   final_output, calls>>

\* the step without the return on an empty list of lines
EngineerFeatures_Unguarded ==
    /\ pc = "ml_fallback"
    /\ model
    /\ lines_with_features' = EngineerFeaturesLayout(pages_content)
    /\ pages_content' = EngineerPages(pages_content)
    /\ calls' = Append(calls, "engineer_features_layout")
    /\ pc' = "predict"
    /\ UNCHANGED <<model, parsed_toc, predictions, all_lines_map,
                   heading_candidates, stitched_headings, processed_bboxes,
                   absorbed, restitched, final_outline_with_levels,
                   final_clean_outline, final_output, result, exit>>

\* lines_with_features = engineer_features_layout(pages_content), and the
\* return of the "Could not parse document" payload when it is empty
EngineerFeatures ==
    /\ pc = "ml_fallback"
    /\ model
    /\ lines_with_features' = EngineerFeaturesLayout(pages_content)
    /\ pages_content' = EngineerPages(pages_content)
    /\ calls' = Append(calls, "engineer_features_layout")
    /\ IF lines_with_features' = <<>>
       THEN /\ result' = [title |-> MSG_NO_LINES, outline |-> <<>>]
            /\ exit' = "no_lines"
            /\ pc' = "done"
       ELSE /\ pc' = "predict"
            /\ UNCHANGED <<result, exit>>
    /\ UNCHANGED <<model, parsed_toc, predictions, all_lines_map,
                   heading_candidates, stitched_headings, processed_bboxes,
                   absorbed, restitched, final_outline_with_levels,
                   final_clean_outline, final_output>>

\* predictions = model.predict(df[features_for_model]): the classifier is a
\* function of the feature row, and nothing else is known of it
Predict ==
    /\ pc = "predict"
    /\ \E classifier \in
           [{FeatureRow(lines_with_features[i]) :
                i \in 1..Len(lines_with_features)} -> Probabilities] :
           predictions' =
               [i \in 1..Len(lines_with_features) |->
                   classifier[FeatureRow(lines_with_features[i])]]
    /\ calls' = Append(calls, "predict")
    /\ pc' = "stitch"
    /\ UNCHANGED <<pages_content, model, parsed_toc, lines_with_features,
                   all_lines_map, heading_candidates, stitched_headings,
                   processed_bboxes, absorbed, restitched,
                   final_outline_with_levels, final_clean_outline,
                   final_output, result, exit>>

\* all_lines_map, heading_candidates and the call of the stitcher
Stitch ==
    /\ pc = "stitch"
    /\ all_lines_map' = AllLinesMap(pages_content)
    /\ heading_candidates' = HeadingCandidates(lines_with_features, predictions)
    /\ LET run == StitchMultilineHeadings(heading_candidates', all_lines_map')
       IN  /\ stitched_headings' = run.stitched
           /\ processed_bboxes' = run.processed_bboxes
           /\ absorbed' = run.absorbed
    /\ calls' = Append(calls, "stitch_multiline_headings")
    /\ pc' = "levels"
    /\ UNCHANGED <<pages_content, model, parsed_toc, lines_with_features,
                   predictions, restitched, final_outline_with_levels,
                   final_clean_outline, final_output, result, exit>>

AssignLevels ==
    /\ pc = "levels"
    /\ final_outline_with_levels' = AssignLevelsByFontSize(stitched_headings)
    /\ calls' = Append(calls, "assign_levels_by_font_size")
    /\ pc' = "sanity"
    /\ UNCHANGED <<pages_content, model, parsed_toc, lines_with_features,
                   predictions, all_lines_map, heading_candidates,
                   stitched_headings, processed_bboxes, absorbed, restitched,
                   final_clean_outline, final_output, result, exit>>

SanityCheck ==
    /\ pc = "sanity"
    /\ final_clean_outline' = NlpSanityCheck(final_outline_with_levels)
    /\ calls' = Append(calls, "nlp_sanity_check")
    /\ pc' = "assemble"
    /\ UNCHANGED <<pages_content, model, parsed_toc, lines_with_features,
                   predictions, all_lines_map, heading_candidates,
                   stitched_headings, processed_bboxes, absorbed, restitched,
                   final_outline_with_levels, final_output, result, exit>>

\* final_output, the sort by page and the return of the payload
Assemble ==
    /\ pc = "assemble"
    /\ final_output' = FinalOutput(final_clean_outline)
    /\ result' = [title |-> TitleText(pages_content),
                  outline |-> SortByPage(final_output')]
    /\ exit' = "ml"
    /\ pc' = "done"
    /\ UNCHANGED <<pages_content, model, parsed_toc, lines_with_features,
                   predictions, all_lines_map, heading_candidates,
                   stitched_headings, processed_bboxes, absorbed, restitched,
                   final_outline_with_levels, final_clean_outline, calls>>

Next ==
    \/ FindToc
    \/ AcceptToc
    \/ RejectToc
    \/ NoModel
    \/ EngineerFeatures
    \/ Predict
    \/ Stitch
    \/ AssignLevels
    \/ SanityCheck
    \/ Assemble

Spec == Init /\ [][Next]_vars

(***************************************************************************)
(* find_and_parse_toc on documents whose entries have several indents      *)
(***************************************************************************)
TocInit ==
    /\ pc = "toc_attempt"
    /\ DrawDocument(IndentKinds, MaxIndentLines)
    /\ model = FALSE
    /\ Blank

TocNext == FindToc

TocSpec == TocInit /\ [][TocNext]_vars

(***************************************************************************)
(* stitch_multiline_headings on any heading list and lookup, run twice     *)
(***************************************************************************)
StitchKinds ==
    { [text |-> <<"a">>, size |-> 12, font_family |-> "Arial",
       bold |-> FALSE, x0 |-> 0, x1 |-> 10],
      [text |-> <<"b">>, size |-> 13, font_family |-> "Arial",
       bold |-> FALSE, x0 |-> 0, x1 |-> 10, flag |-> 0],
      [text |-> <<"c">>, size |-> 12, font_family |-> "Arial",
       bold |-> FALSE, x0 |-> 0, x1 |-> 10, flag |-> 1],
      [text |-> WordsText(<<"D">>, <<"d">>, STITCH_MAX_WORDS), size |-> 14,
       font_family |-> "Arial", bold |-> TRUE, x0 |-> 0, x1 |-> 10] }

\* a heading whose bounding box is in no page's lookup
StrayHeading ==
    [text |-> <<"s">>, size |-> 12, font_family |-> "Arial", bold |-> FALSE,
     page_num |-> 0, bbox |-> <<7, 9, 10, 10>>]

StitchInit ==
    /\ pc = "stitch_call"
    /\ DrawDocument(StitchKinds, MaxStitchLines)
    /\ all_lines_map = AllLinesMap(pages_content)
    /\ \E n \in 0..MaxStitchHeadings :
           heading_candidates \in
               [1..n -> Range(Flatten(pages_content)) \cup {StrayHeading}]
    /\ model = TRUE
    /\ parsed_toc = NoToc
    /\ lines_with_features = <<>>
    /\ predictions = <<>>
    /\ stitched_headings = <<>>
    /\ processed_bboxes = {}
    /\ absorbed = <<>>
    /\ restitched = <<>>
    /\ final_outline_with_levels = <<>>
    /\ final_clean_outline = <<>>
    /\ final_output = <<>>
    /\ result = NoResult
    /\ exit = "none"
    /\ calls = <<>>

\* stitch_multiline_headings(headings, all_lines_map)
StitchFirst ==
    /\ pc = "stitch_call"
    /\ LET run == StitchMultilineHeadings(heading_candidates, all_lines_map)
       IN  /\ stitched_headings' = run.stitched
           /\ processed_bboxes' = run.processed_bboxes
           /\ absorbed' = run.absorbed
    /\ pc' = "stitched"
    /\ UNCHANGED <<pages_content, model, parsed_toc, lines_with_features,
                   predictions, all_lines_map, heading_candidates, restitched,
                   final_outline_with_levels, final_clean_outline,
                   final_output, result, exit, calls>>

\* the stitcher applied to its own output, with the same lookup
StitchAgain ==
    /\ pc = "stitched"
    /\ restitched' =
           StitchMultilineHeadings(stitched_headings, all_lines_map).stitched
    /\ pc' = "restitched"
    /\ UNCHANGED <<pages_content, model, parsed_toc, lines_with_features,
                   predictions, all_lines_map, heading_candidates,
                   stitched_headings, processed_bboxes, absorbed,
                   final_outline_with_levels, final_clean_outline,
                   final_output, result, exit, calls>>

StitchNext == StitchFirst \/ StitchAgain

StitchSpec == StitchInit /\ [][StitchNext]_vars

(***************************************************************************)
(* assign_levels_by_font_size on any heading list                          *)
(***************************************************************************)
LevelSizes == {12, 14, 18, 20, 24}

LevelHeadings ==
    { [text |-> <<"a">>, size |-> z, page_num |-> 0] : z \in LevelSizes }

LevelInit ==
    /\ pc = "levels"
    /\ \E n \in 0..MaxLevelHeadings : stitched_headings \in [1..n -> LevelHeadings]
    /\ pages_content = <<>>
    /\ model = TRUE
    /\ parsed_toc = NoToc
    /\ lines_with_features = <<>>
    /\ predictions = <<>>
    /\ all_lines_map = <<>>
    /\ heading_candidates = <<>>
    /\ processed_bboxes = {}
    /\ absorbed = <<>>
    /\ restitched = <<>>
    /\ final_outline_with_levels = <<>>
    /\ final_clean_outline = <<>>
    /\ final_output = <<>>
    /\ result = NoResult
    /\ exit = "none"
    /\ calls = <<>>

LevelNext == AssignLevels

LevelSpec == LevelInit /\ [][LevelNext]_vars

(***************************************************************************)
(* nlp_sanity_check on any heading list                                    *)
(***************************************************************************)
SanityWordCounts ==
    {0, 1, SANITY_MAX_WORDS - 1, SANITY_MAX_WORDS, SANITY_MAX_WORDS + 1}

SanityTexts ==
    { WordsText(first, filler, n) :
        first \in { <<"a">>, <<"1">>, <<BACKTICK, BACKTICK, BACKTICK>>,
                    <<"Z", BACKTICK, BACKTICK>> },
        filler \in { <<"1">>, <<"b">>, <<BACKTICK>> },
        n \in SanityWordCounts }

SanityHeadings ==
    { [text |-> t, size |-> 12, page_num |-> 0, level |-> "H1"] :
        t \in SanityTexts }

SanityInit ==
    /\ pc = "sanity"
    /\ \E n \in 0..MaxSanityHeadings :
           final_outline_with_levels \in [1..n -> SanityHeadings]
    /\ pages_content = <<>>
    /\ model = TRUE
    /\ parsed_toc = NoToc
    /\ lines_with_features = <<>>
    /\ predictions = <<>>
    /\ all_lines_map = <<>>
    /\ heading_candidates = <<>>
    /\ stitched_headings = <<>>
    /\ processed_bboxes = {}
    /\ absorbed = <<>>
    /\ restitched = <<>>
    /\ final_clean_outline = <<>>
    /\ final_output = <<>>
    /\ result = NoResult
    /\ exit = "none"
    /\ calls = <<>>

SanityNext == SanityCheck

SanitySpec == SanityInit /\ [][SanityNext]_vars

(***************************************************************************)
(* Properties of process_document_definitive, checked under Spec           *)
(***************************************************************************)
MlComponents ==
    <<"engineer_features_layout", "predict", "stitch_multiline_headings",
      "assign_levels_by_font_size", "nlp_sanity_check">>

MlPositions ==
    {"ml_fallback", "predict", "stitch", "levels", "sanity", "assemble"}

\* the outline a parsed table of contents maps to, entry by entry
OutlineOfToc ==
    [i \in 1..Len(parsed_toc.entries) |->
        [level |-> parsed_toc.entries[i].level,
         text |-> parsed_toc.entries[i].text,
         page |-> parsed_toc.entries[i].page]]

\* C1: the TOC path is taken if and only if find_and_parse_toc found a
\* table of contents with more than 4 entries (5 are accepted, 4 and fewer
\* are rejected); the feature engineer, classifier, stitcher, level
\* assigner and sanity filter run only after the TOC attempt, in that
\* order, and only when the TOC was rejected.
C1_TocFirstStrategy ==
    LET accepted == parsed_toc.found /\ Len(parsed_toc.entries) >= 5
    IN  /\ pc = "done" => ((exit = "toc") <=> accepted)
        /\ exit = "toc" =>
               /\ result.outline = OutlineOfToc
               /\ calls = <<"find_and_parse_toc">>
        /\ pc \in MlPositions => ~accepted
        /\ calls = SubSeq(<<"find_and_parse_toc">> \o MlComponents, 1, Len(calls))
        /\ Len(calls) > 1 => ~accepted

C1_Witness ==
    /\ pc = "done"
    /\ exit = "toc"
    /\ model
    /\ Len(parsed_toc.entries) = 5

AllPagesEmpty == \A p \in 1..Len(pages_content) : pages_content[p] = <<>>

\* C2: when the TOC is not accepted and no classifier is supplied, the
\* result is the "Error: ML Model not provided for inference." payload
\* with an empty outline; when a classifier is supplied and no page has a
\* line, it is the "Could not parse document" payload with an empty
\* outline; in both cases the run never goes past the guard and the
\* classifier's predict is never invoked.
C2_RecoverablePayloads ==
    /\ (~model \/ AllPagesEmpty) =>
           /\ pc \in {"toc_attempt", "decide", "ml_fallback", "done"}
           /\ \A i \in 1..Len(calls) : calls[i] # "predict"
    /\ (pc = "done" /\ exit # "toc" /\ ~model) =>
           result = [title |-> MSG_NO_MODEL, outline |-> <<>>]
    /\ (pc = "done" /\ model /\ AllPagesEmpty) =>
           result = [title |-> MSG_NO_LINES, outline |-> <<>>]

C2_Witness ==
    /\ pc = "done"
    /\ model
    /\ pages_content = <<>>
    /\ result.title = MSG_NO_LINES

IsSortedByPage(outline) ==
    \A i \in 1..(Len(outline) - 1) : outline[i].page <= outline[i + 1].page

\* entries of one page appear in outline in the order they have in produced
TiesKeepOrder(outline, produced) ==
    \A p \in {outline[i].page : i \in 1..Len(outline)} :
        SelectSeq(outline, LAMBDA e : e.page = p)
            = SelectSeq(produced, LAMBDA e : e.page = p)

\* C3 as stated: whichever strategy produced the result, the outline is
\* sorted by ascending page and entries of one page keep the order in
\* which the strategy produced them.
C3_AlwaysSortedByPage ==
    pc = "done" =>
        /\ IsSortedByPage(result.outline)
        /\ TiesKeepOrder(result.outline,
                         IF exit = "toc" THEN OutlineOfToc ELSE final_output)

\* C3 amended: every result that is not an accepted table of contents (the
\* classifier fallback and the two error payloads) has its outline sorted
\* by ascending page, entries of one page keeping the order in which the
\* fallback produced them.
C3_FallbackSortedByPage ==
    (pc = "done" /\ exit # "toc") =>
        /\ IsSortedByPage(result.outline)
        /\ TiesKeepOrder(result.outline, final_output)
        /\ Len(result.outline) = Len(final_output)

C3_Witness ==
    /\ pc = "done"
    /\ exit = "ml"
    /\ Len(result.outline) = 3
    /\ result.outline[1].page = result.outline[2].page
    /\ result.outline[2].page < result.outline[3].page

\* the entry lines of the documents drawn for Spec
IsEntryLine(line) == Len(line.text) = 5 /\ line.text[3] = "."

\* C4: when the TOC is accepted the outline has exactly one entry per
\* entry line found from the header page on, page by page and top to
\* bottom, each with the level, text and page of the parsed entry; it is
\* neither sorted by page, filtered nor stitched.
C4_TocOutlineInParseOrder ==
    exit = "toc" =>
        LET header_pages ==
                {p \in 1..Len(pages_content) :
                    \E i \in 1..Min(3, Len(pages_content[p])) :
                        pages_content[p][i].text = <<"T", "O", "C">>}
            first == CHOOSE p \in header_pages : \A q \in header_pages : p <= q
            expected ==
                SelectSeq(Flatten(SubSeq(pages_content, first, Len(pages_content))),
                          IsEntryLine)
            least == CHOOSE x \in {expected[i].bbox[1] : i \in 1..Len(expected)} :
                         \A i \in 1..Len(expected) : x <= expected[i].bbox[1]
        IN  /\ Len(result.outline) = Len(expected)
            /\ result.outline = OutlineOfToc
            /\ \A i \in 1..Len(expected) :
                   result.outline[i] =
                       [level |-> IF expected[i].bbox[1] = least THEN "H1" ELSE "H2",
                        text |-> SubSeq(expected[i].text, 1, 2),
                        page |-> 9 - expected[i].bbox[2]]

C4_Witness ==
    /\ exit = "toc"
    /\ Len(result.outline) = 6
    /\ ~IsSortedByPage(result.outline)

\* the classifier labelled this line a heading
PredictedHeading(line) ==
    \E i \in 1..Len(lines_with_features) :
        /\ LineKey(lines_with_features[i]) = LineKey(line)
        /\ predictions[i] > THRESHOLD

\* C9: on the classifier path a line is merged into a heading only if it
\* is on the heading's page, directly follows the heading or another
\* merged line, has fewer than 7 words, is not bold, differs from the
\* heading by at most 1 in size and was not itself predicted a heading.
C9_AbsorbsOnlyContinuations ==
    pc \in {"levels", "sanity", "assemble", "done"} =>
        \A e \in 1..Len(absorbed) : \A k \in 1..Len(absorbed[e]) :
            LET h == stitched_headings[e]
                line == absorbed[e][k]
            IN  /\ line.page_num = h.page_num
                /\ line.bbox[2] = h.bbox[2] + k
                /\ WordCount(line.text) < 7
                /\ ~line.bold
                /\ Abs(line.size - h.size) <= 1
                /\ ~PredictedHeading(line)

(***************************************************************************)
(* Properties of the components, each checked under its own specification  *)
(***************************************************************************)
Tags == <<"H1", "H2", "H3">>

\* C5: in a returned table of contents two entries have the same level
\* exactly when they have the same indent; an entry's level is H{k}, k
\* being the rank of its indent among the distinct indents in ascending
\* order; the levels used are exactly H1..Hn for n distinct indents, so
\* two indents never give H3.
C5_LevelIsIndentRank ==
    parsed_toc.found =>
        LET es == parsed_toc.entries
            indents == {es[i].indent : i \in 1..Len(es)}
        IN  /\ es # <<>>
            /\ \A i, j \in 1..Len(es) :
                   (es[i].level = es[j].level) <=> (es[i].indent = es[j].indent)
            /\ \A i \in 1..Len(es) :
                   es[i].level =
                       Tags[1 + Cardinality({d \in indents : d < es[i].indent})]
            /\ {es[i].level : i \in 1..Len(es)}
                   = {Tags[k] : k \in 1..Cardinality(indents)}
            /\ Cardinality(indents) = 2 => \A i \in 1..Len(es) : es[i].level # "H3"

C5_Witness ==
    /\ parsed_toc.found
    /\ Len(parsed_toc.entries) = 4
    /\ Cardinality({parsed_toc.entries[i].indent : i \in 1..4}) = 3

\* the words of a text whose words are separated by single spaces
SpacedWords(text) ==
    IF text = <<>> THEN 0
    ELSE 1 + Cardinality({i \in 1..Len(text) : text[i] = " "})

Alphabetic(text) == Range(text) \cap AsciiLetters # {}

Fenced(text) ==
    \E i \in 1..(Len(text) - 2) :
        SubSeq(text, i, i + 2) = <<BACKTICK, BACKTICK, BACKTICK>>

\* C6: the filter keeps an entry exactly when its text has a letter, has
\* no triple backtick and has fewer than 25 words (24 kept, 25 removed, no
\* letter removed whatever the length); the output is the input with the
\* other entries taken out, unchanged and in order.
C6_SanityFilter ==
    pc = "assemble" =>
        /\ final_clean_outline =
               SelectSeq(final_outline_with_levels,
                         LAMBDA h : /\ Alphabetic(h.text)
                                    /\ ~Fenced(h.text)
                                    /\ SpacedWords(h.text) <= 24)
        /\ \A i \in 1..Len(final_outline_with_levels) :
               LET h == final_outline_with_levels[i]
                   kept == \E k \in 1..Len(final_clean_outline) :
                               final_clean_outline[k] = h
               IN  /\ (SpacedWords(h.text) = 24 /\ Alphabetic(h.text)
                          /\ ~Fenced(h.text)) => kept
                   /\ SpacedWords(h.text) = 25 => ~kept
                   /\ ~Alphabetic(h.text) => ~kept

C6_Witness ==
    /\ pc = "assemble"
    /\ Len(final_outline_with_levels) = 2
    /\ SpacedWords(final_outline_with_levels[1].text) = 25
    /\ SpacedWords(final_outline_with_levels[2].text) = 24
    /\ final_clean_outline = <<final_outline_with_levels[2]>>

\* C7: every heading gets H1, H2 or H3: H{k} for the k-th largest distinct
\* size, and H3 for every smaller size; sizes {24,20,18,14,12} give
\* H1,H2,H3,H3,H3; with fewer than 3 sizes the deeper tags are unused; a
\* larger heading is never deeper than a smaller one.
C7_LevelsSaturateAtH3 ==
    pc = "sanity" =>
        LET hs == final_outline_with_levels
            sizes == {hs[i].size : i \in 1..Len(hs)}
            Rank(z) == 1 + Cardinality({y \in sizes : y > z})
            Depth(h) == CHOOSE k \in 1..3 : Tags[k] = h.level
            Example == [z \in {24, 20, 18, 14, 12} |->
                           IF z = 24 THEN "H1" ELSE IF z = 20 THEN "H2" ELSE "H3"]
        IN  /\ Len(hs) = Len(stitched_headings)
            /\ \A i \in 1..Len(hs) :
                   /\ hs[i].size = stitched_headings[i].size
                   /\ hs[i].text = stitched_headings[i].text
                   /\ hs[i].level \in Range(Tags)
                   /\ hs[i].level = Tags[Min(3, Rank(hs[i].size))]
                   /\ sizes = {24, 20, 18, 14, 12} => hs[i].level = Example[hs[i].size]
            /\ \A i, j \in 1..Len(hs) :
                   hs[i].size > hs[j].size => Depth(hs[i]) <= Depth(hs[j])
            /\ {hs[i].level : i \in 1..Len(hs)}
                   = {Tags[k] : k \in 1..Min(3, Cardinality(sizes))}

C7_Witness ==
    /\ pc = "sanity"
    /\ {final_outline_with_levels[i].size :
           i \in 1..Len(final_outline_with_levels)} = {24, 20, 18, 14, 12}

\* C8 as stated: stitching the stitched output again, with the same
\* lookup, returns every entry with the text it had after the first run.
C8_StitchIdempotent ==
    pc = "restitched" =>
        /\ Len(restitched) = Len(stitched_headings)
        /\ \A i \in 1..Len(restitched) :
               restitched[i].text = stitched_headings[i].text

\* the text the lines merged into entry e add to it
Continuation(e) ==
    Flatten([k \in 1..Len(absorbed[e]) |-> <<" ">> \o absorbed[e][k].text])

\* C8 amended: stitching the stitched output again, with the same lookup,
\* returns as many entries; an entry into which the first run merged no
\* line keeps its text, and every other entry gets the same continuation
\* appended a second time.
C8_StitchIdempotentWithoutNeighbours ==
    pc = "restitched" =>
        /\ Len(restitched) = Len(stitched_headings)
        /\ \A i \in 1..Len(restitched) :
               /\ restitched[i].text = stitched_headings[i].text \o Continuation(i)
               /\ (restitched[i].text = stitched_headings[i].text)
                      <=> (absorbed[i] = <<>>)

C8_Witness ==
    /\ pc = "restitched"
    /\ Len(stitched_headings) = 2
    /\ absorbed[1] # <<>>
    /\ absorbed[2] = <<>>
    /\ restitched[1].text # stitched_headings[1].text
    /\ restitched[2].text = stitched_headings[2].text

\* the headings are listed page by page and top to bottom
InDocumentOrder(hs) ==
    \A i \in 1..(Len(hs) - 1) :
        \/ hs[i].page_num < hs[i + 1].page_num
        \/ /\ hs[i].page_num = hs[i + 1].page_num
           /\ hs[i].bbox[2] < hs[i + 1].bbox[2]

InLookup(h) ==
    \E i \in 1..Len(PageLines(all_lines_map, h.page_num)) :
        PageLines(all_lines_map, h.page_num)[i][1] = h.bbox

\* C10: in a pass over headings in document order every merged line is
\* recorded as consumed, no returned entry is a consumed line, no line is
\* merged twice, and a heading whose bounding box is not in its page's
\* lookup is returned as it was given.
C10_LinesContributeOnce ==
    (pc \in {"stitched", "restitched"} /\ InDocumentOrder(heading_candidates)) =>
        /\ \A e \in 1..Len(absorbed) : \A k \in 1..Len(absorbed[e]) :
               /\ LineKey(absorbed[e][k]) \in processed_bboxes
               /\ \A f \in 1..Len(absorbed) : \A m \in 1..Len(absorbed[f]) :
                      LineKey(absorbed[e][k]) = LineKey(absorbed[f][m])
                          => (e = f /\ k = m)
        /\ \A e \in 1..Len(stitched_headings) :
               LineKey(stitched_headings[e]) \notin processed_bboxes
        /\ \A i \in 1..Len(heading_candidates) :
               ~InLookup(heading_candidates[i]) =>
                   \E e \in 1..Len(stitched_headings) :
                       stitched_headings[e] = heading_candidates[i]

C10_Witness ==
    /\ pc = "stitched"
    /\ InDocumentOrder(heading_candidates)
    /\ Len(heading_candidates) = 2
    /\ Len(stitched_headings) = 1
    /\ absorbed[1] # <<>>
    /\ LineKey(heading_candidates[2]) \in processed_bboxes

====
